---- MODULE Spec2Model ----
(***************************************************************************)
(* newts-sizing: a CLI with two sub-commands.                              *)
(*   size      the capacity estimator (calculate)                          *)
(*   analysis  the RRD/JRB directory analyzer (analyze)                    *)
(* The repository holds two implementations of each sub-command; both are  *)
(* modelled, and the variable command says which one main dispatches to.   *)
(***************************************************************************)
EXTENDS Integers, Sequences, FiniteSets, TLC

(***************************************************************************)
(* Natural numbers of any size, for the 53-bit significands of float64 and *)
(* their products: a sequence of limbs in base 2^14, least significant     *)
(* first, without a leading zero limb; << >> is 0.                         *)
(***************************************************************************)
LimbBits == 14

Radix == 16384

RECURSIVE Pow2(_)
Pow2(k) == IF k <= 0 THEN 1 ELSE 2 * Pow2(k - 1)

RECURSIVE BitLenInt(_)
BitLenInt(n) == IF n = 0 THEN 0 ELSE 1 + BitLenInt(n \div 2)

RECURSIVE BTrim(_)
BTrim(a) ==
    IF a = << >> THEN a
    ELSE IF a[Len(a)] = 0 THEN BTrim(SubSeq(a, 1, Len(a) - 1))
    ELSE a

RECURSIVE BFromInt(_)
BFromInt(n) == IF n = 0 THEN << >> ELSE << n % Radix >> \o BFromInt(n \div Radix)

RECURSIVE BToInt(_)
BToInt(a) == IF a = << >> THEN 0 ELSE a[1] + Radix * BToInt(Tail(a))

Limb1(a) == IF a = << >> THEN 0 ELSE a[1]

Rest(a) == IF a = << >> THEN a ELSE Tail(a)

RECURSIVE BAddC(_, _, _)
BAddC(a, b, c) ==
    IF a = << >> /\ b = << >> THEN (IF c = 0 THEN << >> ELSE << c >>)
    ELSE LET s == Limb1(a) + Limb1(b) + c
         IN  << s % Radix >> \o BAddC(Rest(a), Rest(b), s \div Radix)

BAdd(a, b) == BAddC(a, b, 0)

\* a - b for a >= b.
RECURSIVE BSubC(_, _, _)
BSubC(a, b, c) ==
    IF a = << >> THEN << >>
    ELSE LET s == a[1] - Limb1(b) - c
         IN  << (s + Radix) % Radix >> \o BSubC(Tail(a), Rest(b), IF s < 0 THEN 1 ELSE 0)

BSub(a, b) == BTrim(BSubC(a, b, 0))

RECURSIVE BCmpAt(_, _, _)
BCmpAt(a, b, i) ==
    IF i = 0 THEN 0
    ELSE IF a[i] # b[i] THEN (IF a[i] < b[i] THEN -1 ELSE 1)
    ELSE BCmpAt(a, b, i - 1)

\* -1, 0 or 1 as a < b, a = b or a > b.
BCmp(a, b) ==
    IF Len(a) # Len(b) THEN (IF Len(a) < Len(b) THEN -1 ELSE 1)
    ELSE BCmpAt(a, b, Len(a))

\* a * k for 0 <= k <= Radix.
RECURSIVE BMulSmallC(_, _, _)
BMulSmallC(a, k, c) ==
    IF a = << >> THEN BFromInt(c)
    ELSE LET p == a[1] * k + c
         IN  << p % Radix >> \o BMulSmallC(Tail(a), k, p \div Radix)

BMulSmall(a, k) == IF k = 0 THEN << >> ELSE BMulSmallC(a, k, 0)

RECURSIVE BMul(_, _)
BMul(a, b) ==
    IF a = << >> \/ b = << >> THEN << >>
    ELSE LET r == BMul(a, Tail(b))
         IN  BAdd(BMulSmall(a, b[1]), IF r = << >> THEN r ELSE << 0 >> \o r)

\* a * 2^k.
BShl(a, k) ==
    IF a = << >> THEN a
    ELSE [i \in 1..(k \div LimbBits) |-> 0] \o BMulSmall(a, Pow2(k % LimbBits))

\* The limbs i..1 of a divided by d (1 <= d <= Radix) with r carried in.
RECURSIVE BDivSmallAt(_, _, _, _)
BDivSmallAt(a, d, i, r) ==
    IF i = 0 THEN << >>
    ELSE LET t == r * Radix + a[i]
         IN  BDivSmallAt(a, d, i - 1, t % d) \o << t \div d >>

BDivSmall(a, d) == BTrim(BDivSmallAt(a, d, Len(a), 0))

RECURSIVE BModSmallAt(_, _, _, _)
BModSmallAt(a, d, i, r) ==
    IF i = 0 THEN r ELSE BModSmallAt(a, d, i - 1, (r * Radix + a[i]) % d)

\* floor(a / 2^k).
BShr(a, k) ==
    IF k \div LimbBits >= Len(a) THEN << >>
    ELSE BDivSmall(SubSeq(a, k \div LimbBits + 1, Len(a)), Pow2(k % LimbBits))

\* Whether the k lowest bits of a are all 0.
BLowZero(a, k) ==
    LET w == k \div LimbBits
    IN  /\ \A i \in 1..(IF w < Len(a) THEN w ELSE Len(a)) : a[i] = 0
        /\ (w >= Len(a) \/ a[w + 1] % Pow2(k % LimbBits) = 0)

\* Bit k of a, bit 0 being the lowest.
BBit(a, k) ==
    IF k \div LimbBits >= Len(a) THEN 0
    ELSE (a[k \div LimbBits + 1] \div Pow2(k % LimbBits)) % 2

BBitLen(a) ==
    IF a = << >> THEN 0 ELSE LimbBits * (Len(a) - 1) + BitLenInt(a[Len(a)])

\* a rounded to the nearest multiple of 2^k, ties to even, as a count of
\* such multiples; sticky says that a stands for a slightly larger value.
BRoundShr(a, k, sticky) ==
    IF k = 0 THEN a
    ELSE LET kept == BShr(a, k)
             up   == /\ BBit(a, k - 1) = 1
                     /\ (sticky \/ ~BLowZero(a, k - 1) \/ BBit(a, k) = 1)
         IN  IF up THEN BAdd(kept, << 1 >>) ELSE kept

(***************************************************************************)
(* float64 values (IEEE 754 binary64, round to nearest, ties to even).     *)
(* A finite value is (-1)^s * m * 2^e, kept in one form: a normal number   *)
(* has a 53-bit m, a subnormal one has e = -1074 and a shorter m, and a    *)
(* zero has m = 0 and e = 0.                                               *)
(***************************************************************************)
MantBits == 53

MinExp == -1074

MaxExp == 971

NaN == [k |-> "nan", s |-> 0, m |-> << >>, e |-> 0]

Inf(s) == [k |-> "inf", s |-> s, m |-> << >>, e |-> 0]

FZero(s) == [k |-> "fin", s |-> s, m |-> << >>, e |-> 0]

Zero == FZero(0)

IsNaN(a) == a.k = "nan"

IsZero(a) == a.k = "fin" /\ a.m = << >>

\* A rounded significand m0 at exponent q as a float64: rounding up may have
\* carried into a 54th bit; 0 for an empty significand, an infinity beyond
\* the largest exponent.
Carry(s, m0, q) ==
    LET m == IF BBitLen(m0) > MantBits THEN BShr(m0, 1) ELSE m0
        e == IF BBitLen(m0) > MantBits THEN q + 1 ELSE q
    IN  IF m = << >> THEN FZero(s)
        ELSE IF e > MaxExp THEN Inf(s)
        ELSE [k |-> "fin", s |-> s, m |-> m, e |-> e]

\* n * 2^x as a significand at exponent q.
RoundAt(s, n, x, sticky, q) ==
    Carry(s, IF q <= x THEN BShl(n, x - q) ELSE BRoundShr(n, q - x, sticky), q)

\* The float64 nearest to (-1)^s * n * 2^x (n a natural number of any
\* size); sticky says that the magnitude is slightly larger than n * 2^x.
\* The exponent is that of a 53-bit significand, held at the subnormal one.
Round(s, n, x, sticky) ==
    IF n = << >> THEN FZero(s)
    ELSE RoundAt(s, n, x, sticky,
                 IF x + BBitLen(n) - MantBits < MinExp
                 THEN MinExp
                 ELSE x + BBitLen(n) - MantBits)

\* float64(i) for an integer i.
F(i) == Round(IF i < 0 THEN 1 ELSE 0, BFromInt(IF i < 0 THEN -i ELSE i), 0, FALSE)

\* a * b (Go's float64 *).
FMul(a, b) ==
    LET s == (a.s + b.s) % 2
    IN  IF IsNaN(a) \/ IsNaN(b) THEN NaN
        ELSE IF a.k = "inf" \/ b.k = "inf"
        THEN (IF IsZero(a) \/ IsZero(b) THEN NaN ELSE Inf(s))
        ELSE IF IsZero(a) \/ IsZero(b) THEN FZero(s)
        ELSE Round(s, BMul(a.m, b.m), a.e + b.e, FALSE)

\* A significand of at most 54 bits as the pair of its high and low 27 bits.
Half == 134217728

HalfBits == 27

HighPart(m) == BToInt(BShr(m, HalfBits))

LowPart(m) == BToInt(BSub(m, BShl(BShr(m, HalfBits), HalfBits)))

\* Long division, one quotient bit per step: the remainder (rh, rl) < the
\* divisor (dh, dl) is doubled and the divisor taken off when it fits.
RECURSIVE DivLoop(_, _, _, _, _, _, _)
DivLoop(rh, rl, dh, dl, qh, ql, n) ==
    IF n = 0 THEN [qh |-> qh, ql |-> ql, exact |-> (rh = 0 /\ rl = 0)]
    ELSE LET rl1 == (2 * rl) % Half
             rh1 == 2 * rh + (2 * rl) \div Half
             ge  == rh1 > dh \/ (rh1 = dh /\ rl1 >= dl)
             bw  == IF rl1 < dl THEN 1 ELSE 0
             rl2 == IF ge THEN rl1 - dl + bw * Half ELSE rl1
             rh2 == IF ge THEN rh1 - dh - bw ELSE rh1
             q2  == 2 * ql + (IF ge THEN 1 ELSE 0)
             qh2 == 2 * qh + q2 \div Half
         IN  IF rh2 >= 0 /\ rl2 >= 0 /\ qh2 >= 0
             THEN DivLoop(rh2, rl2, dh, dl, qh2, q2 % Half, n - 1)
             ELSE [qh |-> qh, ql |-> ql, exact |-> FALSE]

\* The bits of the quotient worked out before rounding.
QuotBits == 55

\* QuotBits bits of r / d for significands r < d.
Quotient(r, d) ==
    DivLoop(HighPart(r), LowPart(r), HighPart(d), LowPart(d), 0, 0, QuotBits)

\* The quotient bits q, with the leading 1 when the dividend's significand
\* was not below the divisor's, rounded at exponent x.
FDivRound(s, ge, q, x) ==
    Round(s,
          BAdd(BAdd(BShl(BFromInt(q.qh), HalfBits), BFromInt(q.ql)),
               IF ge THEN BShl(<< 1 >>, QuotBits) ELSE << >>),
          x, ~q.exact)

\* The quotient of two significands shifted to 53 bits.
FDivAligned(s, ma, mb, ge, x) ==
    FDivRound(s, ge, Quotient(IF ge THEN BSub(ma, mb) ELSE ma, mb), x)

\* a / b (Go's float64 /): x/0 = Inf, 0/0 = NaN, no panic.
FDiv(a, b) ==
    LET s == (a.s + b.s) % 2
    IN  IF IsNaN(a) \/ IsNaN(b) THEN NaN
        ELSE IF a.k = "inf" THEN (IF b.k = "inf" THEN NaN ELSE Inf(s))
        ELSE IF b.k = "inf" THEN FZero(s)
        ELSE IF IsZero(b) THEN (IF IsZero(a) THEN NaN ELSE Inf(s))
        ELSE IF IsZero(a) THEN FZero(s)
        ELSE LET sa == MantBits - BBitLen(a.m)
                 sb == MantBits - BBitLen(b.m)
             IN  FDivAligned(s, BShl(a.m, sa), BShl(b.m, sb),
                             BCmp(BShl(a.m, sa), BShl(b.m, sb)) >= 0,
                             (a.e - sa) - (b.e - sb) - QuotBits)

\* The sum of two finite non-zero values whose significands na and nb are
\* taken at the same exponent x.
FAddAligned(sa, na, sb, nb, x) ==
    IF sa = sb THEN Round(sa, BAdd(na, nb), x, FALSE)
    ELSE IF BCmp(na, nb) = 0 THEN Zero
    ELSE IF BCmp(na, nb) > 0 THEN Round(sa, BSub(na, nb), x, FALSE)
    ELSE Round(sb, BSub(nb, na), x, FALSE)

\* a + b (Go's float64 +).
FAdd(a, b) ==
    IF IsNaN(a) \/ IsNaN(b) THEN NaN
    ELSE IF a.k = "inf" THEN (IF b.k = "inf" /\ b.s # a.s THEN NaN ELSE a)
    ELSE IF b.k = "inf" THEN b
    ELSE IF IsZero(a) /\ IsZero(b) THEN FZero(IF a.s = b.s THEN a.s ELSE 0)
    ELSE IF IsZero(a) THEN b
    ELSE IF IsZero(b) THEN a
    ELSE LET x == IF a.e < b.e THEN a.e ELSE b.e
         IN  FAddAligned(a.s, BShl(a.m, a.e - x), b.s, BShl(b.m, b.e - x), x)

\* a - b.
FSub(a, b) == FAdd(a, IF IsNaN(b) THEN b ELSE [b EXCEPT !.s = 1 - b.s])

\* a < b (Go's float64 <): false when either side is NaN; -0 = +0.
FLess(a, b) ==
    IF IsNaN(a) \/ IsNaN(b) THEN FALSE
    ELSE IF IsZero(a) /\ IsZero(b) THEN FALSE
    ELSE IF a.s # b.s THEN a.s = 1
    ELSE IF a.k = "inf" \/ b.k = "inf"
         THEN (IF a.k = b.k THEN FALSE
               ELSE IF a.s = 0 THEN b.k = "inf" ELSE a.k = "inf")
    ELSE LET x == IF a.s = 0 THEN a ELSE b
             y == IF a.s = 0 THEN b ELSE a
         \* |x| < |y| for finite values, by their form: a larger exponent,
         \* or the same exponent and a larger significand
         IN  IF IsZero(y) THEN FALSE
             ELSE IF IsZero(x) THEN TRUE
             ELSE x.e < y.e \/ (x.e = y.e /\ BCmp(x.m, y.m) < 0)

\* math.Ceil.
Ceil(a) ==
    IF a.k # "fin" \/ IsZero(a) \/ a.e >= 0 THEN a
    ELSE Round(a.s,
               IF a.s = 1 \/ BLowZero(a.m, -a.e)
               THEN BShr(a.m, -a.e)
               ELSE BAdd(BShr(a.m, -a.e), << 1 >>),
               0, FALSE)

\* The targets the program is built for, told apart by what int(v) gives for
\* a value that no int holds.
Builds == {"amd64", "arm64"}

\* The largest magnitude that an int (64 bits) of sign s holds.
IntLimit(s) ==
    IF s = 1 THEN BShl(<< 1 >>, 63) ELSE BSub(BShl(<< 1 >>, 63), << 1 >>)

\* int(v): v truncated toward zero, an int being a sign and a magnitude of
\* any size.  For a value that no int holds (NaN, an infinity, a magnitude
\* beyond the range of int) the result depends on the implementation: amd64
\* gives the least int, arm64 gives 0 for NaN and the nearest int otherwise.
ToInt(v, build) ==
    LET n == IF v.e >= 0 THEN BShl(v.m, v.e) ELSE BShr(v.m, -v.e)
    IN  IF v.k = "fin" /\ v.e + BBitLen(v.m) <= 64 /\ BCmp(n, IntLimit(v.s)) <= 0
        THEN [s |-> IF n = << >> THEN 0 ELSE v.s, m |-> n]
        ELSE IF build = "amd64" THEN [s |-> 1, m |-> IntLimit(1)]
        ELSE IF v.k = "nan" THEN [s |-> 0, m |-> << >>]
        ELSE [s |-> v.s, m |-> IntLimit(v.s)]

DigitChars == <<"0", "1", "2", "3", "4", "5", "6", "7", "8", "9">>

\* The decimal digits of a natural number, << >> for 0.
RECURSIVE BDigits(_)
BDigits(a) ==
    IF a = << >> THEN << >>
    ELSE BDigits(BDivSmall(a, 10)) \o << DigitChars[BModSmallAt(a, 10, Len(a), 0) + 1] >>

\* fmt's %d of an int.
FmtD(n) ==
    IF n.m = << >> THEN <<"0">>
    ELSE (IF n.s = 1 THEN <<"-">> ELSE << >>) \o BDigits(n.m)

\* The digits d of a count of hundredths, with zeros in front up to a
\* length of three, the sign and the point.
Point2(s, d) ==
    LET p == IF Len(d) >= 3 THEN d ELSE [i \in 1..(3 - Len(d)) |-> "0"] \o d
    IN  (IF s = 1 THEN <<"-">> ELSE << >>)
        \o SubSeq(p, 1, Len(p) - 2) \o <<".">> \o SubSeq(p, Len(p) - 1, Len(p))

\* fmt's %.2f of a float64: the exact value rounded to two decimals, ties to
\* even, or the text fmt prints for a special value.
Fmt2(a) ==
    IF a.k = "nan" THEN <<"N", "a", "N">>
    ELSE IF a.k = "inf"
    THEN (IF a.s = 1 THEN <<"-">> ELSE <<"+">>) \o <<"I", "n", "f">>
    ELSE Point2(a.s, BDigits(IF a.e >= 0
                             THEN BShl(BMulSmall(a.m, 100), a.e)
                             ELSE BRoundShr(BMulSmall(a.m, 100), -a.e, FALSE)))

(***************************************************************************)
(* The capacity estimator.                                                 *)
(***************************************************************************)
\* Values the flags of the size sub-command are drawn from.
TtlValues == {1, 7}

IntervalValues == {5, 45}

SampleSizeValues == {16, 18}

ReplicationValues == {1, 2}

OverheadValues == {0, 15, 30, 50}

DiskSpaceValues == {0, 1, 500}

TotalMetricsValues == {0, 100, 1048576, 1572864, 2097152}

InjectionRateValues == {0, 5, 4096}

SizingArgs ==
    [ttl : TtlValues, interval : IntervalValues, sampleSize : SampleSizeValues,
     replicationFactor : ReplicationValues, diskOverhead : OverheadValues,
     totalMetrics : TotalMetricsValues, diskSpace : DiskSpaceValues,
     injectionRate : InjectionRateValues]

NoArgs ==
    [ttl |-> 0, interval |-> 0, sampleSize |-> 0, replicationFactor |-> 0,
     diskOverhead |-> 0, totalMetrics |-> 0, diskSpace |-> 0, injectionRate |-> 0]

\* One printed line: which Printf it is, the value it shows and, for the
\* node-count line, whether it carries the replication-factor notice.
Line(tag, value, notice) == [line |-> tag, value |-> value, notice |-> notice]

NoValue == << >>

GB == F(1073741824)

\* roundUp: math.Ceil, then the increment the code guards with value-v > 0,
\* then int(v).
roundUp(value, build) ==
    LET v == Ceil(value)
    IN  ToInt(IF FLess(Zero, FSub(value, v)) THEN FAdd(v, F(1)) ELSE v, build)

\* The guard with the comparisons reversed.
bothDemandsReversed(injectionRate, totalMetrics) ==
    FLess(injectionRate, Zero) /\ FLess(totalMetrics, Zero)

\* cli/sizing/main.go: the guard that rejects both demand inputs.
bothDemands(injectionRate, totalMetrics) ==
    FLess(Zero, injectionRate) /\ FLess(Zero, totalMetrics)

\* cli/sizing/main.go: totalMetrics after the if/else on injectionRate.
totalMetricsOf(a) ==
    IF FLess(Zero, F(a.injectionRate))
    THEN FMul(FMul(F(a.injectionRate), F(a.interval)), F(60))
    ELSE F(a.totalMetrics)

totalSamplesPerMetric(a) ==
    FDiv(FMul(F(a.ttl), F(86400)), FMul(F(a.interval), F(60)))

percentageAvailable(a) == FSub(F(1), FDiv(F(a.diskOverhead), F(100)))

\* cli/sizing/main.go: numberOfNodes, the quotient as the code leaves it.
numberOfNodes(a) ==
    LET totalDiskPerNodeInBytes == FMul(GB, F(a.diskSpace))
        sampleCapacityInBytes   == FMul(totalMetricsOf(a), totalSamplesPerMetric(a))
        clusterUsableDiskSpace  == FMul(sampleCapacityInBytes, F(a.sampleSize))
    IN  FDiv(FMul(clusterUsableDiskSpace, F(a.replicationFactor)),
             FMul(totalDiskPerNodeInBytes, percentageAvailable(a)))

\* dailyGrowPerNode over the rounded-up node count.
dailyGrowPerNodeRounded(a, nodes) ==
    FDiv(FMul(FMul(FMul(totalMetricsOf(a), FDiv(F(a.replicationFactor), Ceil(nodes))),
                   FDiv(F(86400), FMul(F(a.interval), F(60)))),
              F(a.sampleSize)),
         GB)

\* cli/sizing/main.go: dailyGrowPerNode.
dailyGrowPerNode(a, nodes) ==
    FDiv(FMul(FMul(FMul(totalMetricsOf(a), FDiv(F(a.replicationFactor), nodes)),
                   FDiv(F(86400), FMul(F(a.interval), F(60)))),
              F(a.sampleSize)),
         GB)

\* The notice condition on the rounded-up node count.
belowReplicationRounded(nodes, replicationFactor) ==
    FLess(Ceil(nodes), replicationFactor)

\* cli/sizing/main.go: the condition of the replication-factor notice.
belowReplication(nodes, replicationFactor) == FLess(nodes, replicationFactor)

\* cli/sizing/main.go calculate: the error it returns and the lines it prints.
calculate(a) ==
    IF bothDemands(F(a.injectionRate), F(a.totalMetrics))
    THEN [err |-> TRUE, out |-> << >>]
    ELSE LET nodes == numberOfNodes(a)
         IN  [err |-> FALSE,
              out |-> << Line("gb", NoValue, FALSE),
                         Line("rate", NoValue, FALSE),
                         Line("samples", NoValue, FALSE),
                         Line("avail", NoValue, FALSE),
                         Line("capacity", NoValue, FALSE),
                         Line("nodes", Fmt2(nodes),
                              belowReplication(nodes, F(a.replicationFactor))),
                         Line("growth", Fmt2(dailyGrowPerNode(a, nodes)), FALSE) >>]

\* The other calculate (total-metrics only): rawNumberOfNodes.
rawNumberOfNodes(a) ==
    LET availBytesPerNode ==
            FMul(FMul(F(a.diskSpace), GB), percentageAvailable(a))
    IN  FDiv(FMul(FMul(FMul(totalSamplesPerMetric(a), F(a.totalMetrics)),
                       F(a.sampleSize)), F(a.replicationFactor)),
             availBytesPerNode)

\* The other calculate, as built for a target: it never fails; the node
\* count is printed with %d.
calculateRoundUp(a, build) ==
    [err |-> FALSE,
     out |-> << Line("gb", NoValue, FALSE),
                Line("samples", NoValue, FALSE),
                Line("avail", NoValue, FALSE),
                Line("rate", NoValue, FALSE),
                Line("nodes",
                     FmtD(roundUp(rawNumberOfNodes(a), build)),
                     FALSE),
                Line("capacity", NoValue, FALSE) >>]

(***************************************************************************)
(* The directory analyzer.  Paths, names and the lines of property files   *)
(* are sequences of one-character strings, so that the regular             *)
(* expressions and strings.Split act on characters as in the code.         *)
(***************************************************************************)
Digits == {"0", "1", "2", "3", "4", "5", "6", "7", "8", "9"}

IsPrefixAt(s, p, w) ==
    /\ p >= 1
    /\ p + Len(w) - 1 <= Len(s)
    /\ \A k \in 1..Len(w) : s[p + k - 1] = w[k]

EndsWith(s, w) == Len(w) <= Len(s) /\ IsPrefixAt(s, Len(s) - Len(w) + 1, w)

\* The position of the last "/" of a path, 0 when it has none.
LastSlash(path) ==
    LET at == {k \in 1..Len(path) : path[k] = "/"}
    IN  IF at = {} THEN 0 ELSE CHOOSE k \in at : \A j \in at : j <= k

\* strings.Split(path, "/"): the elements between the separators.
RECURSIVE SplitSlash(_)
SplitSlash(path) ==
    LET at == {k \in 1..Len(path) : path[k] = "/"}
    IN  IF at = {} THEN << path >>
        ELSE LET k == CHOOSE x \in at : \A j \in at : x <= j
             IN  << SubSeq(path, 1, k - 1) >> \o SplitSlash(SubSeq(path, k + 1, Len(path)))

\* filepath.Clean, element by element: an empty element and "." are
\* dropped, ".." removes the element before it, is dropped at the root and
\* is kept at the start of a relative path.
RECURSIVE CleanElems(_, _, _)
CleanElems(elems, out, rooted) ==
    IF elems = << >> THEN out
    ELSE LET e == Head(elems)
         IN  CleanElems(Tail(elems),
                 IF e = << >> \/ e = <<".">> THEN out
                 ELSE IF e = <<".", ".">>
                 THEN (IF out # << >> /\ out[Len(out)] # <<".", ".">>
                       THEN SubSeq(out, 1, Len(out) - 1)
                       ELSE IF rooted THEN out
                       ELSE Append(out, e))
                 ELSE Append(out, e),
                 rooted)

RECURSIVE JoinElems(_)
JoinElems(elems) ==
    IF elems = << >> THEN << >>
    ELSE IF Len(elems) = 1 THEN elems[1]
    ELSE elems[1] \o <<"/">> \o JoinElems(Tail(elems))

\* filepath.Clean: the shortest equivalent path; "." for an empty one.
Clean(path) ==
    IF path = << >> THEN <<".">>
    ELSE LET rooted == path[1] = "/"
             body   == JoinElems(CleanElems(SplitSlash(path), << >>, rooted))
         IN  IF rooted THEN <<"/">> \o body
             ELSE IF body = << >> THEN <<".">>
             ELSE body

RECURSIVE TrimSlashes(_)
TrimSlashes(path) ==
    IF path # << >> /\ path[Len(path)] = "/"
    THEN TrimSlashes(SubSeq(path, 1, Len(path) - 1))
    ELSE path

\* filepath.Base: the last element of the path, trailing separators
\* removed first; "." for an empty path and "/" for one of separators only.
Base(path) ==
    IF path = << >> THEN <<".">>
    ELSE LET t == TrimSlashes(path)
         IN  IF t = << >> THEN <<"/">>
             ELSE SubSeq(t, LastSlash(t) + 1, Len(t))

\* filepath.Dir: all but the last element of the path, cleaned; "." when
\* the path has no separator and "/" for a file of the root directory.
Dir(path) == Clean(SubSeq(path, 1, LastSlash(path)))

\* filepath.Join of two paths: an empty element is left out, and what is
\* left is cleaned; "" when both are empty.
Join(dir, name) ==
    IF dir = << >> THEN (IF name = << >> THEN << >> ELSE Clean(name))
    ELSE IF name = << >> THEN Clean(dir)
    ELSE Clean(dir \o <<"/">> \o name)

dsProperties ==
    <<"d", "s", ".", "p", "r", "o", "p", "e", "r", "t", "i", "e", "s">>

stringsProperties ==
    <<"s", "t", "r", "i", "n", "g", "s", ".",
      "p", "r", "o", "p", "e", "r", "t", "i", "e", "s">>

RrdExt == <<".", "r", "r", "d">>

JrbExt == <<".", "j", "r", "b">>

\* rrdRegExp = \.(rrd|jrb)$ matched against the path.
isRRD(path) == EndsWith(path, RrdExt) \/ EndsWith(path, JrbExt)

\* rrdRegExp.ReplaceAllString(name, ""): the match at the end is cut off.
StripRrd(name) ==
    IF isRRD(name) THEN SubSeq(name, 1, Len(name) - 4) ELSE name

IsDigit(c) == c \in Digits

IsDigitOrDot(c) == c \in Digits \cup {"."}

NotSlash(c) == c # "/"

\* Membership of a character in the class \d, [\d.] or [^\/].
InClass(c, class) ==
    CASE class = "\\d" -> IsDigit(c)
      [] class = "[\\d.]" -> IsDigitOrDot(c)
      [] class = "[^\\/]" -> NotSlash(c)

\* The length of the longest run of characters of the class, from position q.
RunLen(s, q, class) ==
    LET stops == {k \in q..Len(s) : ~InClass(s[k], class)}
    IN  IF stops = {} THEN (IF q > Len(s) THEN 0 ELSE Len(s) - q + 1)
        ELSE (CHOOSE k \in stops : \A j \in stops : k <= j) - q

SnmpSlash == <<"s", "n", "m", "p", "/">>

FsSlash == <<"f", "s", "/">>

ResponseSlash == <<"r", "e", "s", "p", "o", "n", "s", "e", "/">>

\* nodeRegExp = snmp\/(\d+|fs\/[^\/]+\/[^\/]+)\/ tried at position p: the
\* captured group as a one-element sequence, or << >> when it does not match.
NodeMatchAt(path, p) ==
    IF ~IsPrefixAt(path, p, SnmpSlash) THEN << >>
    ELSE LET q  == p + 5
             nd == RunLen(path, q, "\\d")
             s1 == RunLen(path, q + 3, "[^\\/]")
             r  == q + 3 + s1 + 1
             s2 == RunLen(path, r, "[^\\/]")
         IN  IF nd >= 1 /\ IsPrefixAt(path, q + nd, <<"/">>)
             THEN << SubSeq(path, q, q + nd - 1) >>
             ELSE IF /\ IsPrefixAt(path, q, FsSlash)
                     /\ s1 >= 1 /\ IsPrefixAt(path, q + 3 + s1, <<"/">>)
                     /\ s2 >= 1 /\ IsPrefixAt(path, r + s2, <<"/">>)
             THEN << SubSeq(path, q, r + s2 - 1) >>
             ELSE << >>

\* intfRegExp = response\/([\d.]+)\/ tried at position p.
IntfMatchAt(path, p) ==
    IF ~IsPrefixAt(path, p, ResponseSlash) THEN << >>
    ELSE LET q == p + 9
             n == RunLen(path, q, "[\\d.]")
         IN  IF n >= 1 /\ IsPrefixAt(path, q + n, <<"/">>)
             THEN << SubSeq(path, q, q + n - 1) >>
             ELSE << >>

\* FindStringSubmatch: the group of the leftmost match, << >> when none.
MatchAt(path, p, re) ==
    IF re = "node" THEN NodeMatchAt(path, p) ELSE IntfMatchAt(path, p)

FindFirst(path, re) ==
    LET hits == {p \in 1..Len(path) : MatchAt(path, p, re) # << >>}
    IN  IF hits = {} THEN << >>
        ELSE MatchAt(path, CHOOSE p \in hits : \A j \in hits : p <= j, re)

nodeRegExp(path) == FindFirst(path, "node")

intfRegExp(path) == FindFirst(path, "intf")

\* strings.SplitN(line, "=", 2): a split at the first "=" alone.
SplitEqFirst(line) ==
    LET at == {k \in 1..Len(line) : line[k] = "="}
    IN  IF at = {} THEN << line >>
        ELSE LET k == CHOOSE x \in at : \A j \in at : x <= j
             IN  << SubSeq(line, 1, k - 1), SubSeq(line, k + 1, Len(line)) >>

\* strings.Split(line, "="): the pieces between the "=" characters.
RECURSIVE SplitEq(_)
SplitEq(line) ==
    LET at == {k \in 1..Len(line) : line[k] = "="}
    IN  IF at = {} THEN << line >>
        ELSE LET k == CHOOSE x \in at : \A j \in at : x <= j
             IN  << SubSeq(line, 1, k - 1) >> \o SplitEq(SubSeq(line, k + 1, Len(line)))

\* m[k]++ and m[k] = v on a Go map.
MapInc(m, k) ==
    IF k \in DOMAIN m THEN [m EXCEPT ![k] = @ + 1] ELSE m @@ (k :> 1)

MapPut(m, k, v) == [x \in DOMAIN m \cup {k} |-> IF x = k THEN v ELSE m[x]]

\* The scanner loop of getProperties over the lines of an opened file.
RECURSIVE ParseLines(_, _)
ParseLines(lines, properties) ==
    IF lines = << >> THEN properties
    ELSE LET data == SplitEq(Head(lines))
         IN  ParseLines(Tail(lines),
                        IF Len(data) = 2
                        THEN MapPut(properties, data[1], data[2])
                        ELSE properties)

(***************************************************************************)
(* The files a run may find under the RRD directory /r, listed in the      *)
(* lexical order in which filepath.Walk meets them.  lines is the content  *)
(* of a property file.                                                     *)
(***************************************************************************)
\* /r/d.rrd
DirEntry ==
    [path |-> <<"/", "r", "/", "d", ".", "r", "r", "d">>,
     isDir |-> TRUE, size |-> 64,
     lines |->
       << >>]

\* /r/response/10.0.0.1/a.jrb
PingJrb ==
    [path |-> <<"/", "r", "/", "r", "e", "s", "p", "o", "n", "s", "e", "/",
              "1", "0", ".", "0", ".", "0", ".", "1", "/", "a", ".", "j",
              "r", "b">>,
     isDir |-> FALSE, size |-> 600,
     lines |->
       << >>]

\* /r/snmp/1/a.rrd
NodeRrd ==
    [path |-> <<"/", "r", "/", "s", "n", "m", "p", "/", "1", "/", "a", ".",
              "r", "r", "d">>,
     isDir |-> FALSE, size |-> 500,
     lines |->
       << >>]

\* /r/snmp/1/ds.properties
\*     x=a
\*     y=a
\*     w=a
\*     x=b
\*     a
\*     q=a=a
NodeDs ==
    [path |-> <<"/", "r", "/", "s", "n", "m", "p", "/", "1", "/", "d", "s",
              ".", "p", "r", "o", "p", "e", "r", "t", "i", "e", "s">>,
     isDir |-> FALSE, size |-> 40,
     lines |->
       << <<"x", "=", "a">>,
       <<"y", "=", "a">>,
       <<"w", "=", "a">>,
       <<"x", "=", "b">>,
       <<"a">>,
       <<"q", "=", "a", "=", "a">> >>]

\* /r/snmp/1/strings.properties
\*     k=v
\*     k=w
\*     j=
\*     n
\*     =
NodeStrings ==
    [path |-> <<"/", "r", "/", "s", "n", "m", "p", "/", "1", "/", "s", "t",
              "r", "i", "n", "g", "s", ".", "p", "r", "o", "p", "e", "r",
              "t", "i", "e", "s">>,
     isDir |-> FALSE, size |-> 30,
     lines |->
       << <<"k", "=", "v">>,
       <<"k", "=", "w">>,
       <<"j", "=">>,
       <<"n">>,
       <<"=">> >>]

\* /r/snmp/fs/S/n/a.rrd
FsRrd ==
    [path |-> <<"/", "r", "/", "s", "n", "m", "p", "/", "f", "s", "/", "S",
              "/", "n", "/", "a", ".", "r", "r", "d">>,
     isDir |-> FALSE, size |-> 700,
     lines |->
       << >>]

Universe == << DirEntry, PingJrb, NodeRrd, NodeDs, NodeStrings, FsRrd >>

\* At most MaxFiles of the entries of Universe exist in one run, and at most
\* MaxDebugFiles of them in a run with the debug flag.
MaxFiles == 3

MaxDebugFiles == 2

(***************************************************************************)
(* A tree holding one file, <root>/<dir>/.../<dir>/<name>: the root is     *)
(* the rrd-dir flag, the directories are drawn from DirNames and are at    *)
(* most MaxDepth deep.  The walk hands the callback the root joined with   *)
(* the names below it.                                                     *)
(***************************************************************************)
Roots == { <<"/", "r">>, <<".">>, <<"/">>, << >> }

DirNames ==
    { <<"s", "n", "m", "p">>,
      <<"x", "s", "n", "m", "p">>,
      <<"f", "s">>,
      <<"r", "e", "s", "p", "o", "n", "s", "e">>,
      <<"1", "2">>,
      <<"1", ".", "2", ".", "3", ".", "4">>,
      <<".", ".", ".">> }

FileNames == { <<"a", ".", "r", "r", "d">>, <<"n", ".", "t", "x", "t">> }

MaxDepth == 4

\* The path the walk builds for the file: the root joined with the names
\* below it.

\* The files of the one-file trees under the given roots.
Files(roots) ==
    {[path |-> Join(root, JoinElems(Append(dirs, name))),
      isDir |-> FALSE, size |-> 100, lines |-> << >>] :
        root \in roots,
        dirs \in UNION {[1..n -> DirNames] : n \in 0..MaxDepth},
        name \in FileNames}

NoFile == [path |-> << >>, isDir |-> FALSE, size |-> 0, lines |-> << >>]

\* The clock when analyze starts, in hours, and the newer-than flag (its
\* default).
Now == 100

NewerThan == 48

\* startDate := time.Now().Add(-newerThan)
StartDate == Now - NewerThan

\* What stat and open give for an existing entry.  A failing stat stands for
\* a vanished or inaccessible entry, which cannot be opened either.  The
\* modification time of a directory is never read.
Attrs(i) ==
    [mtime : IF Universe[i].isDir THEN {StartDate + 1}
             ELSE {StartDate - 1, StartDate, StartDate + 1},
     stat : {"ok"}, open : {"ok"}]
    \cup {[mtime |-> StartDate + 1, stat |-> "err", open |-> "err"]}
    \cup (IF Universe[i].lines # << >>
          THEN {[mtime |-> StartDate + 1, stat |-> "ok", open |-> "err"]}
          ELSE {})

FileSystems ==
    UNION {[present -> UNION {Attrs(i) : i \in present}] :
           present \in {q \in SUBSET (1..Len(Universe)) : Cardinality(q) <= MaxFiles}}

NoData ==
    [debug |-> FALSE, numOfGroups |-> 0, numOfNumericMetrics |-> 0, numOfStringMetrics |-> 0,
     nodeMap |-> << >>, resourceMap |-> << >>, interfaceMap |-> << >>,
     totalSizeInBytes |-> 0]

\* The methods of metrics.
incGroups(m) == [m EXCEPT !.numOfGroups = @ + 1]

addNumeric(m, numeric) == [m EXCEPT !.numOfNumericMetrics = @ + numeric]

addString(m, strings) == [m EXCEPT !.numOfStringMetrics = @ + strings]

\* addSize that assigns instead of adding.
addSizeAssign(m, size) == [m EXCEPT !.totalSizeInBytes = size]

addSize(m, size) == [m EXCEPT !.totalSizeInBytes = @ + size]

addNode(m, n) == [m EXCEPT !.nodeMap = MapInc(@, n)]

addIntf(m, i) == [m EXCEPT !.interfaceMap = MapInc(@, i)]

\* addResource that records the resource without counting it.
addResourceOnce(m, r) == [m EXCEPT !.resourceMap = MapPut(@, r, 1)]

addResource(m, r) == [m EXCEPT !.resourceMap = MapInc(@, r)]

\* getProperties: the table of the file at path; empty when os.Open fails.
\* os.Open finds the file whatever "//" or "./" the path is written with.
getProperties(f, path) ==
    LET found == {j \in DOMAIN f :
                     Clean(Universe[j].path) = Clean(path) /\ f[j].open = "ok"}
    IN  IF found = {} THEN << >>
        ELSE ParseLines(Universe[CHOOSE j \in found : TRUE].lines, << >>)

\* fmt.Sprintf("%s/%s", filepath.Dir(path), name)
Sidecar(path, name) == Dir(path) \o <<"/">> \o name

\* info: the line log.Println writes to standard output when debug is set
\* (the date and time in front of the text are left out).
info(dbg, text) == IF dbg THEN << Line("log", text, FALSE) >> ELSE << >>


\* countNumericMetrics that reads the sidecar even in single-metric mode.
countNumericMetricsNoFlag(f, path, singleMetric) ==
    LET resource   == StripRrd(Base(path))
        properties == getProperties(f, Sidecar(path, dsProperties))
    IN  Cardinality({k \in DOMAIN properties : properties[k] = resource})

\* countNumericMetrics that compares the keys, not the values.
countNumericMetricsKeys(f, path, singleMetric) ==
    IF singleMetric THEN 1
    ELSE LET resource   == StripRrd(Base(path))
             properties == getProperties(f, Sidecar(path, dsProperties))
         IN  Cardinality({k \in DOMAIN properties : k = resource})

\* countNumericMetrics: the count it returns.
countNumericMetrics(f, path, singleMetric) ==
    IF singleMetric THEN 1
    ELSE LET resource   == StripRrd(Base(path))
             dsFile     == Sidecar(path, dsProperties)
             properties == getProperties(f, dsFile)
         IN  Cardinality({k \in DOMAIN properties : properties[k] = resource})

\* countNumericMetrics: what it logs, the text given by its format and the
\* values the format is filled with.
countNumericMetricsInfo(f, path, singleMetric, dbg) ==
    IF singleMetric
    THEN info(dbg, << "Assuming single metric per RRD/JRB files for %s", path >>)
    ELSE info(dbg, << "There are %d numeric metrics for %s on %s",
                      countNumericMetrics(f, path, singleMetric),
                      StripRrd(Base(path)),
                      Sidecar(path, dsProperties) >>)

\* countStringMetrics: the count it returns.
countStringMetrics(f, path) ==
    LET stringsFile == Sidecar(path, stringsProperties)
    IN  Cardinality(DOMAIN getProperties(f, stringsFile))

\* countStringMetrics: what it logs.
countStringMetricsInfo(f, path, dbg) ==
    info(dbg, << "There are %d string attributes on %s",
                 countStringMetrics(f, path),
                 Sidecar(path, stringsProperties) >>)

\* The updates of the walk callback for an RRD/JRB file.
processRRD(m, f, path, size, singleMetric) ==
    LET m1 == IF ~singleMetric THEN incGroups(m) ELSE m
        m2 == addSize(m1, size)
        m3 == addNumeric(m2, countNumericMetrics(f, path, singleMetric))
        m4 == addResource(m3, Base(path))
        nodeData == nodeRegExp(path)
        m5 == IF Len(nodeData) = 1 THEN addNode(m4, nodeData[1]) ELSE m4
        intfData == intfRegExp(path)
    IN  IF Len(intfData) = 1 THEN addIntf(m5, intfData[1]) ELSE m5

\* The modification-time test with "not before" in place of "after".
notBeforeStart(mtime) == mtime >= StartDate

\* Whether the callback goes on past its modification-time test.
newerThanStart(mtime) == mtime > StartDate

\* The walk callback on an entry with modification time mtime, once stat
\* has succeeded.
callbackOn(m, f, entry, mtime, singleMetric) ==
    LET path == entry.path
    IN  IF entry.isDir THEN m
        ELSE IF ~newerThanStart(mtime) THEN m
        ELSE LET m1 == IF isRRD(path)
                       THEN processRRD(m, f, path, entry.size, singleMetric)
                       ELSE m
             IN  IF Base(path) = stringsProperties
                 THEN addString(m1, countStringMetrics(f, path))
                 ELSE m1

\* The lines the walk callback logs on an entry, once stat has succeeded.
callbackInfo(f, entry, mtime, singleMetric, dbg) ==
    LET path == entry.path
    IN  IF entry.isDir THEN << >>
        ELSE IF ~newerThanStart(mtime) THEN << >>
        ELSE (IF isRRD(path)
              THEN countNumericMetricsInfo(f, path, singleMetric, dbg)
              ELSE << >>)
             \o (IF Base(path) = stringsProperties
                 THEN countStringMetricsInfo(f, path, dbg)
                 ELSE << >>)

\* The walk callback on entry i of the tree.
callback(m, f, i, singleMetric) ==
    callbackOn(m, f, Universe[i], f[i].mtime, singleMetric)

\* The characters of the paths, in the order of their bytes.
ByteOrder ==
    << ".", "/", "0", "1", "2", "3", "4", "5", "6", "7", "8", "9", "=", "S",
       "a", "b", "c", "d", "e", "f", "g", "h", "i", "j", "k", "l", "m", "n",
       "o", "p", "q", "r", "s", "t", "u", "v", "w", "x", "y", "z" >>

ByteOf(c) == CHOOSE i \in 1..Len(ByteOrder) : ByteOrder[i] = c

\* a < b on Go strings: byte by byte, a proper prefix first.
StrLess(a, b) ==
    \E k \in 1..Len(b) :
        /\ k <= Len(a) + 1
        /\ \A j \in 1..(k - 1) : a[j] = b[j]
        /\ (k = Len(a) + 1 \/ ByteOf(a[k]) < ByteOf(b[k]))

\* sort.Strings of a set of keys.
RECURSIVE sortStrings(_)
sortStrings(keys) ==
    IF keys = {} THEN << >>
    ELSE LET least == CHOOSE x \in keys : \A y \in keys \ {x} : StrLess(x, y)
         IN  << least >> \o sortStrings(keys \ {least})

\* printSortedMap: a line " %8d: %s (%d)" for each key, in sorted order.
printSortedMap(data) ==
    LET keys == sortStrings(DOMAIN data)
    IN  [i \in 1..Len(keys) |-> Line("entry", << i, keys[i], data[keys[i]] >>, FALSE)]

\* bytefmt.ByteSize for totals below a megabyte: bytes as they are, or
\* kilobytes with one decimal (in tenths, rounded to nearest, ties to even).
ByteSize(bytes) ==
    IF bytes < 1024 THEN [unit |-> "B", tenths |-> 10 * bytes]
    ELSE LET q == (bytes * 10) \div 1024
             r == (bytes * 10) % 1024
         IN  [unit |-> "K",
              tenths |-> IF 2 * r > 1024 \/ (2 * r = 1024 /\ q % 2 = 1)
                         THEN q + 1 ELSE q]

Header ==
    << Line("dir", 0, FALSE), Line("storeByGroup", 0, FALSE),
       Line("newer", StartDate, FALSE), Line("dots", 0, FALSE) >>

\* The seven totals that end a run.
printTotals(m) ==
    << Line("Nodes", Cardinality(DOMAIN m.nodeMap), FALSE),
       Line("IP Interfaces", Cardinality(DOMAIN m.interfaceMap), FALSE),
       Line("Resources", Cardinality(DOMAIN m.resourceMap), FALSE),
       Line("Groups", m.numOfGroups, FALSE),
       Line("String Metrics", m.numOfStringMetrics, FALSE),
       Line("Numeric Metrics", m.numOfNumericMetrics, FALSE),
       Line("Total Size", ByteSize(m.totalSizeInBytes), FALSE) >>

\* printResults: with debug, the three maps in sorted order between two
\* empty lines; then the totals.
printResults(m) ==
    (IF m.debug
     THEN << Line("", 0, FALSE), Line("Nodes:", 0, FALSE) >>
          \o printSortedMap(m.nodeMap)
          \o << Line("IP Interfaces:", 0, FALSE) >>
          \o printSortedMap(m.interfaceMap)
          \o << Line("Resources:", 0, FALSE) >>
          \o printSortedMap(m.resourceMap)
          \o << Line("", 0, FALSE) >>
     ELSE << >>)
    \o printTotals(m)

(***************************************************************************)
(* The program: main dispatches to one sub-command and exits.              *)
(*   command   size | sizeRoundUp | analysis | analysisWalk                *)
(*   pc        start, walking, returned (to main), exited                  *)
(***************************************************************************)
VARIABLES command, args, pc, err, stdout, exitCode,
          rootOk, fs, singleMetric, debug, visited, data, file

vars == <<command, args, pc, err, stdout, exitCode,
          rootOk, fs, singleMetric, debug, visited, data, file>>

analysisVars == <<rootOk, fs, singleMetric, debug, visited, data, file>>

\* The process before main runs.
InitProcess ==
    /\ pc = "start"
    /\ err = FALSE
    /\ stdout = << >>
    /\ exitCode = -1
    /\ visited = {}
    /\ data = NoData
    /\ file = NoFile

InitSizing ==
    /\ command \in {"size", "sizeRoundUp"}
    /\ args \in SizingArgs
    /\ (command = "sizeRoundUp" => args.injectionRate = 0)
    /\ rootOk = TRUE
    /\ fs = << >>
    /\ singleMetric = FALSE
    /\ debug = FALSE
    /\ InitProcess

InitAnalysis ==
    /\ command \in {"analysis", "analysisWalk"}
    /\ args = NoArgs
    /\ rootOk \in BOOLEAN
    /\ fs \in FileSystems
    /\ (~rootOk => fs = << >>)
    /\ singleMetric \in BOOLEAN
    /\ debug \in BOOLEAN
    /\ (debug => Cardinality(DOMAIN fs) <= MaxDebugFiles)
    /\ InitProcess

Init == InitSizing \/ InitAnalysis

\* main -> app.Run -> calculate of cli/sizing/main.go.
Calculate ==
    /\ pc = "start" /\ command = "size"
    /\ err' = calculate(args).err
    /\ stdout' = calculate(args).out
    /\ pc' = "returned"
    /\ UNCHANGED <<command, args, exitCode>>
    /\ UNCHANGED analysisVars

\* main -> app.Run -> the calculate that rounds up.
CalculateRoundUp ==
    /\ pc = "start" /\ command = "sizeRoundUp"
    /\ \E build \in Builds :
          /\ err' = calculateRoundUp(args, build).err
          /\ stdout' = calculateRoundUp(args, build).out
    /\ pc' = "returned"
    /\ UNCHANGED <<command, args, exitCode>>
    /\ UNCHANGED analysisVars

\* analyze up to the start of godirwalk.Walk, whose stat of the root succeeds.
AnalyzeBegin ==
    /\ pc = "start" /\ command = "analysis" /\ rootOk
    /\ stdout' = Header
    /\ data' = [NoData EXCEPT !.debug = debug]
    /\ pc' = "walking"
    /\ UNCHANGED <<command, args, err, exitCode, rootOk, fs, singleMetric, debug, visited, file>>

\* godirwalk.Walk fails on the root: analyze prints the error and exits 1.
AnalyzeRootError ==
    /\ pc = "start" /\ command = "analysis" /\ ~rootOk
    /\ stdout' = Header
    /\ err' = TRUE
    /\ exitCode' = 1
    /\ pc' = "exited"
    /\ UNCHANGED <<command, args, rootOk, fs, singleMetric, debug, visited, data, file>>

\* godirwalk calls the callback on an entry, in no particular order
\* (Unsorted); stat succeeds and the callback returns nil.
Callback(i) ==
    /\ pc = "walking" /\ command = "analysis"
    /\ i \in DOMAIN fs /\ i \notin visited
    /\ fs[i].stat = "ok"
    /\ data' = callback(data, fs, i, singleMetric)
    /\ stdout' = stdout \o callbackInfo(fs, Universe[i], fs[i].mtime, singleMetric, debug)
    /\ visited' = visited \cup {i}
    /\ UNCHANGED <<command, args, pc, err, exitCode, rootOk, fs, singleMetric, debug, file>>

\* os.Stat fails in the callback (or the directory cannot be read): the
\* error goes to ErrorCallback, which answers SkipNode, and the walk goes on.
ErrorCallback(i) ==
    /\ pc = "walking" /\ command = "analysis"
    /\ i \in DOMAIN fs /\ i \notin visited
    /\ fs[i].stat = "err"
    /\ visited' = visited \cup {i}
    /\ UNCHANGED <<command, args, pc, err, stdout, exitCode, rootOk, fs, singleMetric, debug, data, file>>

\* godirwalk.Walk returns nil: analyze prints the results and returns nil.
AnalyzeEnd ==
    /\ pc = "walking" /\ command = "analysis"
    /\ visited = DOMAIN fs
    /\ stdout' = stdout \o printResults(data)
    /\ err' = FALSE
    /\ pc' = "returned"
    /\ UNCHANGED <<command, args, exitCode, rootOk, fs, singleMetric, debug, visited, data, file>>

\* cli/analysis/main.go analyze up to filepath.Walk, whose Lstat of the root
\* succeeds.
WalkBegin ==
    /\ pc = "start" /\ command = "analysisWalk" /\ rootOk
    /\ stdout' = Header
    /\ data' = NoData
    /\ pc' = "walking"
    /\ UNCHANGED <<command, args, err, exitCode, rootOk, fs, singleMetric, debug, visited, file>>

\* filepath.Walk hands the root's Lstat error to the walk function, which
\* returns it; analyze returns it to main.
WalkRootError ==
    /\ pc = "start" /\ command = "analysisWalk" /\ ~rootOk
    /\ stdout' = Header
    /\ err' = TRUE
    /\ pc' = "returned"
    /\ UNCHANGED <<command, args, exitCode, rootOk, fs, singleMetric, debug, visited, data, file>>

\* The next entry in lexical order.
NextEntry == CHOOSE i \in DOMAIN fs \ visited : \A j \in DOMAIN fs \ visited : i <= j

\* The walk function of cli/analysis/main.go on the next entry, err == nil.
WalkFn ==
    /\ pc = "walking" /\ command = "analysisWalk"
    /\ visited # DOMAIN fs
    /\ fs[NextEntry].stat = "ok"
    /\ data' = callback(data, fs, NextEntry, singleMetric)
    /\ stdout' = stdout \o callbackInfo(fs, Universe[NextEntry], fs[NextEntry].mtime,
                                        singleMetric, debug)
    /\ visited' = visited \cup {NextEntry}
    /\ UNCHANGED <<command, args, pc, err, exitCode, rootOk, fs, singleMetric, debug, file>>

\* The walk function of cli/analysis/main.go called with err != nil: it
\* returns the error, filepath.Walk stops and analyze returns the error.
WalkFnError ==
    /\ pc = "walking" /\ command = "analysisWalk"
    /\ visited # DOMAIN fs
    /\ fs[NextEntry].stat = "err"
    /\ err' = TRUE
    /\ pc' = "returned"
    /\ UNCHANGED <<command, args, stdout, exitCode, rootOk, fs, singleMetric, debug, visited, data, file>>

\* filepath.Walk returns nil: the totals are printed.
WalkEnd ==
    /\ pc = "walking" /\ command = "analysisWalk"
    /\ visited = DOMAIN fs
    /\ stdout' = stdout \o printTotals(data)
    /\ err' = FALSE
    /\ pc' = "returned"
    /\ UNCHANGED <<command, args, exitCode, rootOk, fs, singleMetric, debug, visited, data, file>>

\* main: a returned error is written to stderr and the process exits 1;
\* otherwise main ends and the process exits 0.
MainExit ==
    /\ pc = "returned"
    /\ exitCode' = IF err THEN 1 ELSE 0
    /\ pc' = "exited"
    /\ UNCHANGED <<command, args, err, stdout, rootOk, fs, singleMetric, debug, visited, data, file>>

\* The steps of a run of one of the two estimators.
NextSizing ==
    \/ Calculate
    \/ CalculateRoundUp
    \/ MainExit

\* The steps of a run of one of the two analyzers.
NextAnalysis ==
    \/ AnalyzeBegin
    \/ AnalyzeRootError
    \/ \E i \in 1..Len(Universe) : Callback(i)
    \/ \E i \in 1..Len(Universe) : ErrorCallback(i)
    \/ AnalyzeEnd
    \/ WalkBegin
    \/ WalkRootError
    \/ WalkFn
    \/ WalkFnError
    \/ WalkEnd
    \/ MainExit

Next == NextSizing \/ NextAnalysis

Spec == Init /\ [][Next]_vars

\* The runs of the estimators and the runs of the analyzers, apart.
SpecSizing == InitSizing /\ [][NextSizing]_vars

SpecAnalysis == InitAnalysis /\ [][NextAnalysis]_vars

(***************************************************************************)
(* The unsorted walk over a tree that holds one file, newer than the       *)
(* cutoff, under one of Roots.                                             *)
(***************************************************************************)
InitPaths ==
    /\ command = "analysis"
    /\ args = NoArgs
    /\ rootOk = TRUE
    /\ fs = << >>
    /\ singleMetric \in BOOLEAN
    /\ debug \in BOOLEAN
    /\ file \in Files(Roots)
    /\ pc = "start"
    /\ err = FALSE
    /\ stdout = << >>
    /\ exitCode = -1
    /\ visited = {}
    /\ data = NoData

\* godirwalk calls the callback on the file; stat succeeds.
CallbackFile ==
    /\ pc = "walking" /\ command = "analysis"
    /\ file # NoFile
    /\ data' = callbackOn(data, fs, file, StartDate + 1, singleMetric)
    /\ stdout' = stdout \o callbackInfo(fs, file, StartDate + 1, singleMetric, debug)
    /\ pc' = "walked"
    /\ UNCHANGED <<command, args, err, exitCode, rootOk, fs, singleMetric, debug, visited, file>>

\* godirwalk.Walk returns nil: analyze prints the results and returns nil.
AnalyzeEndFile ==
    /\ pc = "walked" /\ command = "analysis"
    /\ stdout' = stdout \o printResults(data)
    /\ err' = FALSE
    /\ pc' = "returned"
    /\ UNCHANGED <<command, args, exitCode, rootOk, fs, singleMetric, debug, visited, data, file>>

NextPaths ==
    \/ AnalyzeBegin
    \/ CallbackFile
    \/ AnalyzeEndFile
    \/ MainExit

SpecPaths == InitPaths /\ [][NextPaths]_vars

(***************************************************************************)
(* The quantities of the written specification, used to state the claims.  *)
(***************************************************************************)
LineOf(out, tag) == out[CHOOSE k \in 1..Len(out) : out[k].line = tag]

HasLine(out, tag) == \E k \in 1..Len(out) : out[k].line = tag

\* Step 1: samplesPerMetric = (ttl_days * 86400) / (interval_minutes * 60).
SpecSamplesPerMetric(a) ==
    FDiv(FMul(F(a.ttl), F(86400)), FMul(F(a.interval), F(60)))

\* Step 2: totalMetrics, derived from the injection rate when that is given.
SpecTotalMetrics(a) ==
    IF a.injectionRate > 0
    THEN FMul(FMul(F(a.injectionRate), F(a.interval)), F(60))
    ELSE F(a.totalMetrics)

\* Step 3: availableBytesPerNode = diskSpaceGB * 2^30 * (1 - overhead/100).
SpecAvailableBytesPerNode(a) ==
    FMul(FMul(F(a.diskSpace), GB), FSub(F(1), FDiv(F(a.diskOverhead), F(100))))

\* Steps 4 to 6: rawNodeCount.
SpecRawNodeCount(a) ==
    FDiv(FMul(FMul(FMul(SpecTotalMetrics(a), SpecSamplesPerMetric(a)),
                   F(a.sampleSize)), F(a.replicationFactor)),
         SpecAvailableBytesPerNode(a))

\* Step 9 for a given node count.
SpecDailyGrowth(a, nodeCount) ==
    FDiv(FMul(FMul(FMul(SpecTotalMetrics(a), FDiv(F(a.replicationFactor), nodeCount)),
                   FDiv(F(86400), FMul(F(a.interval), F(60)))),
              F(a.sampleSize)), GB)

\* The least integer >= a finite value v, stated without math.Ceil.
IsCeilingOf(n, v) == ~FLess(F(n), v) /\ FLess(F(n - 1), v)

\* The number a sequence of decimal digits writes.
RECURSIVE ParseNat(_)
ParseNat(d) ==
    IF d = << >> THEN 0
    ELSE 10 * ParseNat(SubSeq(d, 1, Len(d) - 1))
         + (CHOOSE k \in 0..9 : DigitChars[k + 1] = d[Len(d)])

ReportLines == {"samples", "nodes", "growth"}

\* C1: in the estimator with both demand flags, total-metrics > 0 and
\* injection-rate > 0 together always end in an error (exit code 1) and
\* nothing of the report has been printed.
C1_ConflictRejected ==
    (command = "size" /\ args.totalMetrics > 0 /\ args.injectionRate > 0
       /\ pc # "start")
    => /\ err
       /\ \A k \in 1..Len(stdout) : stdout[k].line \notin ReportLines
       /\ stdout = << >>
       /\ (pc = "exited" => exitCode = 1)

C1_Witness ==
    /\ command = "size" /\ args.totalMetrics = 100 /\ args.injectionRate = 5
    /\ pc = "exited" /\ exitCode = 1 /\ stdout = << >>

\* C2: the node count the rounding estimator prints is the least integer
\* >= rawNodeCount = (totalMetrics * samplesPerMetric * averageSampleSize *
\* replicationFactor) / availableBytesPerNode, for every raw value: an
\* integral quotient maps to itself, a fractional one to the next integer.
C2_RoundUpIsCeiling ==
    (command = "sizeRoundUp" /\ pc # "start")
    => /\ HasLine(stdout, "nodes")
       /\ SpecRawNodeCount(args).k = "fin"
       /\ LineOf(stdout, "nodes").value # << >>
       /\ \A k \in 1..Len(LineOf(stdout, "nodes").value) :
             LineOf(stdout, "nodes").value[k] \in Digits
       /\ IsCeilingOf(ParseNat(LineOf(stdout, "nodes").value),
                      SpecRawNodeCount(args))

\* C3 as written: the replication-factor notice is printed exactly when the
\* rounded-up node count is below the replication factor.
C3_NoticeIffRoundedBelow ==
    (command = "size" /\ pc # "start" /\ ~err)
    => (LineOf(stdout, "nodes").notice
        <=> FLess(Ceil(SpecRawNodeCount(args)), F(args.replicationFactor)))

\* C3 amended: the notice is printed exactly when the unrounded rawNodeCount
\* of step 6, (clusterUsableBytes * replicationFactor) / availableBytesPerNode,
\* is below the replication factor in float64 (never when it is +Inf or NaN).
C3_NoticeIffRawBelow ==
    (command = "size" /\ pc # "start" /\ ~err)
    => /\ HasLine(stdout, "nodes")
       /\ (LineOf(stdout, "nodes").notice
           <=> FLess(SpecRawNodeCount(args), F(args.replicationFactor)))

\* The quotient is 1/2 with replication factor 1: it rounds up to 1, which is
\* not below 1, and the notice is printed.
C3_Witness ==
    /\ command = "size" /\ pc = "exited" /\ ~err
    /\ args.replicationFactor = 1
    /\ SpecRawNodeCount(args) = FDiv(F(1), F(2))
    /\ LineOf(stdout, "nodes").notice

\* C4 as written: the printed daily growth is the formula of step 9 with the
\* rounded-up node count.
C4_GrowthUsesRounded ==
    (command = "size" /\ pc # "start" /\ ~err)
    => LineOf(stdout, "growth").value
         = Fmt2(SpecDailyGrowth(args, Ceil(SpecRawNodeCount(args))))

\* C4 amended: the printed daily growth is the formula of step 9 with the
\* unrounded quotient of step 6 as the node count; with no demand given
\* (total-metrics 0 and injection-rate 0) the value printed is NaN.
C4_GrowthUsesRaw ==
    (command = "size" /\ pc # "start" /\ ~err)
    => /\ HasLine(stdout, "growth")
       /\ LineOf(stdout, "growth").value
            = Fmt2(SpecDailyGrowth(args, SpecRawNodeCount(args)))
       /\ (args.totalMetrics = 0 /\ args.injectionRate = 0
             => LineOf(stdout, "growth").value = <<"N", "a", "N">>)

\* The quotient is 1/2: the growth printed is 1.00 GB, not the 0.50 GB that a
\* node count of 1 gives.
C4_Witness ==
    /\ command = "size" /\ pc = "exited" /\ ~err
    /\ SpecRawNodeCount(args) = FDiv(F(1), F(2))
    /\ LineOf(stdout, "growth").value = <<"1", ".", "0", "0">>
    /\ Fmt2(SpecDailyGrowth(args, F(1))) = <<"0", ".", "5", "0">>

\* C5: every run of the estimator that gets to the node count and the daily
\* growth has exactly one of total-metrics and injection-rate positive.
C5_ExactlyOneDemand ==
    (command = "size" /\ pc # "start" /\ HasLine(stdout, "nodes"))
    => ((args.totalMetrics > 0) # (args.injectionRate > 0))

(***************************************************************************)
(* The totals the written specification prescribes for a set S of visited  *)
(* entries of a file system f, stated on the files and not on the order    *)
(* in which they were visited.                                             *)
(***************************************************************************)
RECURSIVE SumOver(_, _)
SumOver(S, w) ==
    IF S = {} THEN 0
    ELSE LET x == CHOOSE y \in S : TRUE IN w[x] + SumOver(S \ {x}, w)

\* The part of a path after its last "/" and the part before it.
BaseName(path) ==
    LET starts == {k \in 1..(Len(path) + 1) : \A j \in k..Len(path) : path[j] # "/"}
    IN  SubSeq(path, CHOOSE k \in starts : \A j \in starts : k <= j, Len(path))

DirName(path) == SubSeq(path, 1, Len(path) - Len(BaseName(path)) - 1)

\* A name with one of the two round-robin extensions.
IsRoundRobin(path) ==
    /\ Len(path) >= 4
    /\ SubSeq(path, Len(path) - 3, Len(path)) \in {RrdExt, JrbExt}

\* The resource name: the base name without its extension.
ResourceName(path) == SubSeq(BaseName(path), 1, Len(BaseName(path)) - 4)

\* A regular file that stat can read and that is strictly newer than the cutoff.
Eligible(f, i) ==
    /\ f[i].stat = "ok"
    /\ ~Universe[i].isDir
    /\ f[i].mtime > StartDate

\* The counted round-robin files among S.
CountedRRD(f, S) ==
    {i \in S \cap DOMAIN f : Eligible(f, i) /\ IsRoundRobin(Universe[i].path)}

\* The string-metric sidecars among S.
CountedStrings(f, S) ==
    {i \in S \cap DOMAIN f :
        Eligible(f, i) /\ BaseName(Universe[i].path) = stringsProperties}

\* The lines of the readable file at path; none when it is missing or
\* cannot be opened.
LinesAt(f, path) ==
    LET at == {j \in DOMAIN f : Universe[j].path = path /\ f[j].open = "ok"}
    IN  IF at = {} THEN << >> ELSE Universe[CHOOSE j \in at : TRUE].lines

EqCount(line) == Cardinality({k \in 1..Len(line) : line[k] = "="})

EqAt(line) == CHOOSE k \in 1..Len(line) : line[k] = "="

\* The key=value table of a sequence of lines: a line with exactly one "="
\* gives an entry, and a later line replaces an earlier one with its key.
TableKeys(lines) ==
    {SubSeq(lines[n], 1, EqAt(lines[n]) - 1) :
        n \in {x \in 1..Len(lines) : EqCount(lines[x]) = 1}}

TableValue(lines, key) ==
    LET ns == {n \in 1..Len(lines) :
                  /\ EqCount(lines[n]) = 1
                  /\ SubSeq(lines[n], 1, EqAt(lines[n]) - 1) = key}
        n  == CHOOSE x \in ns : \A y \in ns : y <= x
    IN  SubSeq(lines[n], EqAt(lines[n]) + 1, Len(lines[n]))

\* The entries of the ds.properties beside file i whose value is the
\* resource name of i.
DsCount(f, i) ==
    LET lines == LinesAt(f, DirName(Universe[i].path) \o <<"/">> \o dsProperties)
    IN  Cardinality({k \in TableKeys(lines) :
                        TableValue(lines, k) = ResourceName(Universe[i].path)})

StringCount(f, i) ==
    Cardinality(TableKeys(LinesAt(f, Universe[i].path)))

\* The occurrence map of the keys KeyOf gives (<< >>: no key) over C.
Occurrences(C, KeyOf) ==
    LET keyed == {i \in C : KeyOf[i] # << >>}
    IN  [k \in {KeyOf[i][1] : i \in keyed} |->
            Cardinality({i \in keyed : KeyOf[i][1] = k})]

\* The node and interface keys of the paths of the entries of Universe.
NodeKeys == [i \in 1..Len(Universe) |-> nodeRegExp(Universe[i].path)]

IntfKeys == [i \in 1..Len(Universe) |-> intfRegExp(Universe[i].path)]

ExpectedData(f, S, single) ==
    LET C == CountedRRD(f, S)
        SizeOf        == [i \in C |-> Universe[i].size]
        NumericOf     == [i \in C |-> IF single THEN 1 ELSE DsCount(f, i)]
        StringsOf     == [i \in CountedStrings(f, S) |-> StringCount(f, i)]
        NodeOf        == [i \in C |-> NodeKeys[i]]
        IntfOf        == [i \in C |-> IntfKeys[i]]
        ResourceOf    == [i \in C |-> << BaseName(Universe[i].path) >>]
    IN  [numOfGroups |-> IF single THEN 0 ELSE Cardinality(C),
         numOfNumericMetrics |-> SumOver(C, NumericOf),
         numOfStringMetrics |-> SumOver(CountedStrings(f, S), StringsOf),
         nodeMap |-> Occurrences(C, NodeOf),
         resourceMap |-> Occurrences(C, ResourceOf),
         interfaceMap |-> Occurrences(C, IntfOf),
         totalSizeInBytes |-> SumOver(C, SizeOf)]

Analyzing == command \in {"analysis", "analysisWalk"}

\* The statistics of the accumulator: its counters, byte total and maps.
StatisticsOf(m) ==
    [numOfGroups |-> m.numOfGroups,
     numOfNumericMetrics |-> m.numOfNumericMetrics,
     numOfStringMetrics |-> m.numOfStringMetrics,
     nodeMap |-> m.nodeMap,
     resourceMap |-> m.resourceMap,
     interfaceMap |-> m.interfaceMap,
     totalSizeInBytes |-> m.totalSizeInBytes]

\* The seven lines that end a finished report.
TotalsOf(out) == SubSeq(out, Len(out) - 6, Len(out))

\* C6: an error on one entry never aborts the walk: a run whose root exists
\* ends with exit code 0, the statistics printed, and every entry that stat
\* can read visited and counted.
C6_ErrorsNeverAbort ==
    (Analyzing /\ rootOk /\ pc = "exited")
    => /\ exitCode = 0
       /\ HasLine(stdout, "Total Size")
       /\ StatisticsOf(data) = ExpectedData(fs, DOMAIN fs, singleMetric)

\* C7: whatever the order of the visits, the statistics are those of the set
\* of visited files, and when the unsorted walk has ended they are those of
\* all files: the counters, the byte total (the sum of the sizes of the
\* counted round-robin files) and the three occurrence maps.
C7_OrderIndependent ==
    /\ (Analyzing => StatisticsOf(data) = ExpectedData(fs, visited, singleMetric))
    /\ (command = "analysis" /\ rootOk /\ pc \in {"returned", "exited"}
        => LET all == ExpectedData(fs, DOMAIN fs, singleMetric)
           IN  /\ StatisticsOf(data) = all
               /\ Len(stdout) >= 7
               /\ TotalsOf(stdout) = printTotals(all))

\* Two round-robin files and a string sidecar were counted.
C7_Witness ==
    /\ command = "analysis" /\ pc = "exited" /\ exitCode = 0
    /\ Cardinality(CountedRRD(fs, DOMAIN fs)) = 2
    /\ CountedStrings(fs, DOMAIN fs) # {}
    /\ data.totalSizeInBytes > 1024
    /\ data.numOfStringMetrics = 3

\* C8: with single-metric mode on, the group counter is 0 and the numeric
\* total is the number of counted round-robin files, whatever the sidecars.
C8_SingleMetric ==
    (Analyzing /\ singleMetric)
    => /\ data.numOfGroups = 0
       /\ data.numOfNumericMetrics = Cardinality(CountedRRD(fs, visited))

\* a.rrd was counted beside a readable ds.properties that names it twice.
C8_Witness ==
    /\ Analyzing /\ singleMetric /\ pc = "exited"
    /\ 3 \in CountedRRD(fs, visited)
    /\ 4 \in DOMAIN fs /\ fs[4].open = "ok"
    /\ DsCount(fs, 3) = 2
    /\ data.numOfNumericMetrics = 1

\* C9: with single-metric mode off, the numeric total is the sum, over the
\* counted round-robin files, of the entries of the ds.properties of the
\* file's directory whose value is the file's resource name; a missing or
\* unreadable ds.properties counts as an empty table.
C9_SidecarCount ==
    (Analyzing /\ ~singleMetric)
    => data.numOfNumericMetrics
         = SumOver(CountedRRD(fs, visited),
                   [i \in CountedRRD(fs, visited) |-> DsCount(fs, i)])

\* a.rrd was counted beside a readable ds.properties: 2 of its 3 entries
\* have the value a.
C9_Witness ==
    /\ Analyzing /\ ~singleMetric /\ pc = "exited"
    /\ CountedRRD(fs, visited) = {3}
    /\ 4 \in DOMAIN fs /\ fs[4].open = "ok"
    /\ data.numOfNumericMetrics = 2

\* C10: a visit of a file that is not strictly newer than the cutoff leaves
\* every counter and map as it was; a visit of a strictly newer regular file
\* accumulates it according to its class.
C10_CutoffFrame ==
    [][\A i \in DOMAIN fs :
          (i \notin visited /\ i \in visited')
          => /\ (fs[i].mtime <= StartDate => data' = data)
             /\ (Eligible(fs, i) /\ IsRoundRobin(Universe[i].path)
                 => /\ data'.totalSizeInBytes = data.totalSizeInBytes + Universe[i].size
                    /\ BaseName(Universe[i].path) \in DOMAIN data'.resourceMap
                    /\ data'.resourceMap # data.resourceMap)
             /\ (Eligible(fs, i) /\ BaseName(Universe[i].path) = stringsProperties
                 => data'.numOfStringMetrics
                      = data.numOfStringMetrics + StringCount(fs, i))]_vars

\* a.rrd, modified exactly at the cutoff, was visited and left no trace,
\* while the newer fs/S/n/a.rrd was counted.
C10_Witness ==
    /\ Analyzing /\ pc = "exited"
    /\ {3, 6} \subseteq visited
    /\ fs[3].mtime = StartDate /\ fs[3].stat = "ok"
    /\ Eligible(fs, 6)
    /\ data.totalSizeInBytes = 700
    /\ data.resourceMap = (BaseName(Universe[6].path) :> 1)

\* C11: getProperties stores an entry (the text before the "=" -> the text
\* after it) for exactly the lines holding one "=", a later line replacing an
\* earlier one with the same key; a line with no "=" or with several is
\* dropped (stated on the property files of every finished run); and the
\* string-metric total is the sum, over the counted strings.properties
\* files, of the number of entries of their tables.
C11_PropertyParsing ==
    Analyzing =>
        /\ \A j \in DOMAIN fs :
              (pc = "exited" /\ Universe[j].lines # << >> /\ fs[j].open = "ok")
              => LET properties == getProperties(fs, Universe[j].path)
                     lines      == Universe[j].lines
                 IN  /\ DOMAIN properties = TableKeys(lines)
                     /\ \A k \in DOMAIN properties :
                           properties[k] = TableValue(lines, k)
        /\ data.numOfStringMetrics =
              SumOver(CountedStrings(fs, visited),
                      [i \in CountedStrings(fs, visited) |->
                          Cardinality(TableKeys(LinesAt(fs, Universe[i].path)))])

\* The strings.properties (five lines, four with one "=", two of them with
\* the same key) was visited and gave 3, beside a ds.properties whose line
\* with two "=" gave no entry.
C11_Witness ==
    /\ command = "analysis" /\ pc = "exited"
    /\ 5 \in visited /\ Eligible(fs, 5) /\ fs[5].open = "ok"
    /\ Len(NodeStrings.lines) = 5
    /\ data.numOfStringMetrics = 3
    /\ 4 \in DOMAIN fs /\ fs[4].open = "ok"
    /\ <<"q">> \notin DOMAIN getProperties(fs, NodeDs.path)
    /\ Cardinality(DOMAIN getProperties(fs, NodeDs.path)) = 3

(***************************************************************************)
(* Paths read segment by segment, as the written specification reads them. *)
(***************************************************************************)
\* The segments of a path: the pieces between its "/" characters.
RECURSIVE Segments(_)
Segments(path) ==
    LET at == {k \in 1..Len(path) : path[k] = "/"}
    IN  IF at = {} THEN << path >>
        ELSE LET k == CHOOSE x \in at : \A j \in at : x <= j
             IN  << SubSeq(path, 1, k - 1) >> \o Segments(SubSeq(path, k + 1, Len(path)))

\* The directory segments: all but the last one, the file's name.
DirSegments(path) == SubSeq(Segments(path), 1, Len(Segments(path)) - 1)

\* The segments of s joined by "/".
RECURSIVE JoinSlash(_)
JoinSlash(s) ==
    IF Len(s) = 1 THEN s[1] ELSE s[1] \o <<"/">> \o JoinSlash(Tail(s))

\* A purely numeric segment.
IsNumeric(seg) == seg # << >> /\ \A k \in 1..Len(seg) : seg[k] \in Digits

\* A dotted-decimal address: groups of digits separated by single dots, at
\* least two groups.
IsDottedDecimal(seg) ==
    /\ seg # << >>
    /\ \A k \in 1..Len(seg) : seg[k] \in Digits \cup {"."}
    /\ \E k \in 1..Len(seg) : seg[k] = "."
    /\ seg[1] # "." /\ seg[Len(seg)] # "."
    /\ \A k \in 1..(Len(seg) - 1) : ~(seg[k] = "." /\ seg[k + 1] = ".")

SnmpSegment == <<"s", "n", "m", "p">>

FsSegment == <<"f", "s">>

ResponseSegment == <<"r", "e", "s", "p", "o", "n", "s", "e">>

\* The node identifier of a path as a one-element sequence, << >> when it
\* has none: the directory after the first directory named snmp that is
\* followed by a numeric directory or by fs and two more directories.
SpecNodeKey(path) ==
    LET d    == DirSegments(path)
        hits == {i \in 1..Len(d) :
                    /\ d[i] = SnmpSegment
                    /\ \/ (i + 1 <= Len(d) /\ IsNumeric(d[i + 1]))
                       \/ (i + 3 <= Len(d) /\ d[i + 1] = FsSegment)}
    IN  IF hits = {} THEN << >>
        ELSE LET i == CHOOSE x \in hits : \A y \in hits : x <= y
             IN  IF IsNumeric(d[i + 1]) THEN << d[i + 1] >>
                 ELSE << JoinSlash(SubSeq(d, i + 1, i + 3)) >>

\* The interface address of a path: the dotted-decimal directory after the
\* first directory named response that is followed by one.
SpecIntfKey(path) ==
    LET d    == DirSegments(path)
        hits == {i \in 1..(Len(d) - 1) :
                    d[i] = ResponseSegment /\ IsDottedDecimal(d[i + 1])}
    IN  IF hits = {} THEN << >>
        ELSE << d[(CHOOSE x \in hits : \A y \in hits : x <= y) + 1] >>

\* The callback has run on the file of the one-file tree.
FileVisited == file # NoFile /\ pc \in {"walked", "returned", "exited"}

\* C12: a counted round-robin file adds 1 to the node map, under the key the
\* segments of its path give, exactly when its path has a directory named
\* snmp followed by a numeric directory or by fs/<source>/<id>; every other
\* file leaves the node map empty.
C12_NodeKeyBySegments ==
    FileVisited =>
        data.nodeMap =
            IF IsRoundRobin(file.path) /\ SpecNodeKey(file.path) # << >>
            THEN (SpecNodeKey(file.path)[1] :> 1)
            ELSE << >>

\* C13: a counted round-robin file adds 1 to the interface map, under the
\* address, exactly when its path has a directory named response followed
\* by a dotted-decimal directory; a digits-only or dots-only directory after
\* response leaves the interface map empty.
C13_IntfKeyDottedDecimal ==
    FileVisited =>
        data.interfaceMap =
            IF IsRoundRobin(file.path) /\ SpecIntfKey(file.path) # << >>
            THEN (SpecIntfKey(file.path)[1] :> 1)
            ELSE << >>

\* C14: after any number of completed visits, with n the number of counted
\* round-robin files among them: the resource occurrence counts sum to n;
\* the group counter is n with single-metric mode off and 0 with it on; the
\* node counts and the interface counts each sum to at most n; and the
\* number of distinct resources, as held and as reported, is at most n.
C14_AccumulatorInvariant ==
    Analyzing =>
        LET n == Cardinality(CountedRRD(fs, visited))
        IN  /\ SumOver(DOMAIN data.resourceMap, data.resourceMap) = n
            /\ data.numOfGroups = (IF singleMetric THEN 0 ELSE n)
            /\ SumOver(DOMAIN data.nodeMap, data.nodeMap) <= n
            /\ SumOver(DOMAIN data.interfaceMap, data.interfaceMap) <= n
            /\ Cardinality(DOMAIN data.resourceMap) <= n
            /\ (HasLine(stdout, "Resources")
                    => LineOf(stdout, "Resources").value <= n)

\* Two round-robin files of the same name under two nodes were counted: two
\* groups, two occurrences of one resource, two nodes and no interface.
C14_Witness ==
    /\ command = "analysis" /\ pc = "exited" /\ ~singleMetric
    /\ CountedRRD(fs, visited) = {3, 6}
    /\ data.numOfGroups = 2
    /\ data.resourceMap = (BaseName(Universe[3].path) :> 2)
    /\ LineOf(stdout, "Resources").value = 1
    /\ SumOver(DOMAIN data.nodeMap, data.nodeMap) = 2
    /\ data.interfaceMap = << >>

====
